---- MODULE Spec2Model ----
(***************************************************************************)
(* Model of src/main.py: the Telegram -> Bybit auto-trading bot.           *)
(*                                                                         *)
(* A message text is a sequence of tokens; the lexicon below says, for     *)
(* each token, what each regular expression of parse_signal_message finds  *)
(* in it.  Numbers found in a text are records [w, f, inf]: w whole units, *)
(* f the fraction in units of 10^-9, inf TRUE when float() of the digit    *)
(* string overflows to infinity.  Quantities are integers in units of      *)
(* 10^-QTY_DECIMALS; balance and market price are whole USDT;              *)
(* TRADE_PERCENT is in percent points.                                     *)
(***************************************************************************)
EXTENDS Integers, Sequences, FiniteSets, TLC

VARIABLES
    TRADE_PERCENT,  \* configuration, read once at start-up (main.py:23)
    inbox,          \* texts delivered by the chat transport, not yet dispatched
    tasks,          \* handler invocations: locals, position, exchange call log
    loopTask        \* the task the event loop is running (0: none)

vars == <<TRADE_PERCENT, inbox, tasks, loopTask>>

\* ---------------------------------------------------------------- bounds
MaxInbox == 2
MaxTextLen == 3
MaxTasks == 2

\* ------------------------------------------------------------- constants
QTY_DECIMALS == 6
\* Decimal("0.000001") in units of 10^-QTY_DECIMALS
MIN_QTY == 1
DEFAULT_LEVERAGE == 20

\* ---------------------------------------------------------------- numbers
Num(w, f) == [w |-> w, f |-> f, inf |-> FALSE]
Inf == [w |-> 0, f |-> 0, inf |-> TRUE]
NoNum == [w |-> 0, f |-> 0, inf |-> FALSE]

RECURSIVE Pow10(_)
Pow10(n) == IF n = 0 THEN 1 ELSE 10 * Pow10(n - 1)

\* val > 0.01 on a float (main.py:223)
GreaterThanCent(n) == n.inf \/ n.w > 0 \/ n.f > Pow10(7)

\* ---------------------------------------------------------------- lexicon
\* What the regular expressions of parse_signal_message find in each token:
\*   side   : "Buy" for \b(long|buy)\b, "Sell" for \b(short|sell)\b, "" none
\*   sym    : base of #?([A-Z0-9]+)[\-/]?USDT in the upper-cased token, "" none
\*   entry  : the number of Entry\s*-\s*([0-9]*\.?[0-9]+), as a 0/1 sequence
\*   nums   : every match of ([0-9]*\.?[0-9]+), in order
\*   tpmark : Take-?Profit matches
\*   digest : Price\s*-\s*\d+(\.\d+)?\s*\n.*Profit matches (| stands for the newline)
Tok(side, sym, entry, nums, tpmark, digest) ==
    [side |-> side, sym |-> sym, entry |-> entry, nums |-> nums,
     tpmark |-> tpmark, digest |-> digest]

Lexicon(tok) ==
    CASE tok = "hello"         -> Tok("", "", <<>>, <<>>, FALSE, FALSE)
      [] tok = "LONG"          -> Tok("Buy", "", <<>>, <<>>, FALSE, FALSE)
      [] tok = "SHORT"         -> Tok("Sell", "", <<>>, <<>>, FALSE, FALSE)
      [] tok = "BTC/USDT"      -> Tok("", "BTC", <<>>, <<>>, FALSE, FALSE)
      [] tok = "Entry - 50000" -> Tok("", "", <<Num(50000, 0)>>, <<Num(50000, 0)>>, FALSE, FALSE)
      [] tok = "x10"           -> Tok("", "", <<>>, <<Num(10, 0)>>, FALSE, FALSE)
      [] tok = "Take-Profit:"  -> Tok("", "", <<>>, <<>>, TRUE, FALSE)
      [] tok = "51000"         -> Tok("", "", <<>>, <<Num(51000, 0)>>, FALSE, FALSE)
      [] tok = "51000 (50%)"   -> Tok("", "", <<>>, <<Num(51000, 0), Num(50, 0)>>, FALSE, FALSE)
      [] tok = "52000 (50%)"   -> Tok("", "", <<>>, <<Num(52000, 0), Num(50, 0)>>, FALSE, FALSE)
      [] tok = "0.123456789"   -> Tok("", "", <<>>, <<Num(0, 123456789)>>, FALSE, FALSE)
      [] tok = "0.005"         -> Tok("", "", <<>>, <<Num(0, 5000000)>>, FALSE, FALSE)
      [] tok = "9{400}"        -> Tok("", "", <<>>, <<Inf>>, FALSE, FALSE)
      [] tok = "Price - 105.69 | Profit - 80%"
                               -> Tok("", "", <<>>, <<Num(105, 690000000), Num(80, 0)>>, FALSE, TRUE)

\* The texts the chat transport delivers (event.raw_text, main.py:295).
Texts ==
    { <<"hello">>,
      <<"SHORT">>,
      <<"Price - 105.69 | Profit - 80%", "LONG", "BTC/USDT">>,
      <<"LONG", "BTC/USDT">>,
      <<"SHORT", "BTC/USDT", "Take-Profit:", "51000", "0.123456789">>,
      <<"LONG", "SHORT", "BTC/USDT", "Entry - 50000", "x10", "Take-Profit:",
        "51000 (50%)", "52000 (50%)">>,
      <<"LONG", "BTC/USDT", "Take-Profit:", "0.005", "9{400}">> }

\* ----------------------------------------------------------------- parser
RECURSIVE FlatNums(_)
FlatNums(msg) ==
    IF msg = <<>> THEN <<>>
    ELSE Lexicon(Head(msg)).nums \o FlatNums(Tail(msg))

\* re.search: the first position among those where the pattern matches
\* (0: no match)
FirstIndex(hits) ==
    IF hits = {} THEN 0 ELSE CHOOSE i \in hits : \A j \in hits : i <= j

NoSignal == [ok |-> FALSE, symbol |-> "", side |-> "", hasEntry |-> FALSE,
             entry |-> NoNum, tps |-> <<>>]

\* a pre-filter that never matches
IsDigest_never(tok) == FALSE

IsDigest(tok) == Lexicon(tok).digest
IsBuy(tok) == Lexicon(tok).side = "Buy"
\* a side detection without the short|sell branch
IsSell_never(tok) == FALSE

IsSell(tok) == Lexicon(tok).side = "Sell"
\* a symbol pattern whose base may be empty and that matches every token
IsSymbol_any(tok) == TRUE

IsSymbol(tok) == Lexicon(tok).sym # ""
IsEntry(tok) == Lexicon(tok).entry # <<>>
\* a take-profit scan that does not ask for the Take-Profit marker
IsTpMark_always(tok) == TRUE

IsTpMark(tok) == Lexicon(tok).tpmark

parse_signal_message(msg) ==
    IF FirstIndex({i \in DOMAIN msg : IsDigest(msg[i])}) # 0 THEN NoSignal
    ELSE IF FirstIndex({i \in DOMAIN msg : IsBuy(msg[i])}) = 0 /\ FirstIndex({i \in DOMAIN msg : IsSell(msg[i])}) = 0 THEN NoSignal
    ELSE IF FirstIndex({i \in DOMAIN msg : IsSymbol(msg[i])}) = 0 THEN NoSignal
    ELSE
      LET side == IF FirstIndex({i \in DOMAIN msg : IsBuy(msg[i])}) # 0 THEN "Buy" ELSE "Sell"
          symbol == Lexicon(msg[FirstIndex({i \in DOMAIN msg : IsSymbol(msg[i])})]).sym \o "USDT"
          e == FirstIndex({i \in DOMAIN msg : IsEntry(msg[i])})
          tps == IF FirstIndex({i \in DOMAIN msg : IsTpMark(msg[i])}) # 0
                 THEN SelectSeq(FlatNums(msg), GreaterThanCent)
                 ELSE <<>>
      IN [ok |-> TRUE, symbol |-> symbol, side |-> side,
          hasEntry |-> e # 0,
          entry |-> IF e # 0 THEN Lexicon(msg[e]).entry[1] ELSE NoNum,
          tps |-> tps]

\* ------------------------------------------------- exchange (pybit session)
\* What a call of the exchange client can do: raise, or return a payload.
Raise == [kind |-> "raise", equity |-> "", price |-> 0]

\* session.get_wallet_balance: a response without result.list, or a first
\* entry whose totalEquity is a string float() accepts ("0", "1") or not ("").
BalanceResponses ==
    { Raise,
      [kind |-> "nolist", equity |-> "", price |-> 0],
      [kind |-> "equity", equity |-> "", price |-> 0],
      [kind |-> "equity", equity |-> "0", price |-> 0],
      [kind |-> "equity", equity |-> "1", price |-> 0] }

\* session.get_tickers: lastPrice in whole USDT (a malformed payload raises
\* inside the try like the call itself).
TickerResponses ==
    { Raise } \cup
    { [kind |-> "ticker", equity |-> "", price |-> p] : p \in {0, 2, 1000000} }

\* session.switch_margin_mode / session.set_leverage / the take-profit
\* session.place_order: the call returns or raises.
CallOutcomes == {"ok", "raise"}

\* A value under one of the keys filledQty, execQty, lastExecQty, filled_qty:
\* absent, a string Decimal() rejects, or a quantity (units of 10^-6).
Field(k, v) == [k |-> k, v |-> v]
FilledFields ==
    { Field("absent", 0), Field("bad", 0), Field("num", 0), Field("num", 70000) }

\* session.place_order for the entry: raises, returns the empty dict, or a
\* dict whose result carries the field (top) and whose result.list[0]
\* carries it (item).
MarketResponses ==
    { [kind |-> "raise", top |-> Field("absent", 0), item |-> Field("absent", 0)],
      [kind |-> "empty", top |-> Field("absent", 0), item |-> Field("absent", 0)] }
    \cup
    { [kind |-> "dict", top |-> t, item |-> i] : t \in FilledFields, i \in FilledFields }

\* ----------------------------------------------------------------- helpers
\* What a helper hands back to the handler: an exception that left the
\* helper (exc), None (none), or a value.
Ret(v) == [exc |-> FALSE, none |-> FALSE, val |-> v]
RetNone == [exc |-> FALSE, none |-> TRUE, val |-> 0]
Exc == [exc |-> TRUE, none |-> FALSE, val |-> 0]

\* float(total_equity) of the strings above
FloatOf(str) == IF str = "1" THEN 1 ELSE 0

\* a get_balance that answers a positive balance when the query raises
get_balance_optimistic(res) ==
    IF res.kind = "raise" THEN Ret(1)
    ELSE IF res.kind = "equity"
         THEN (IF res.equity = "" THEN Ret(0) ELSE Ret(FloatOf(res.equity)))
         ELSE Ret(0)

get_balance(res) ==
    IF res.kind = "raise" THEN Ret(0)
    ELSE IF res.kind = "equity"
         THEN (IF res.equity = "" THEN Ret(0) ELSE Ret(FloatOf(res.equity)))
         ELSE Ret(0)

\* the except branch logs and continues: either way the helper returns None
set_cross_margin(out) == IF out = "raise" THEN RetNone ELSE RetNone

\* a set_leverage whose exception is not caught
set_leverage_uncaught(out) == IF out = "raise" THEN Exc ELSE RetNone

set_leverage(out) == IF out = "raise" THEN RetNone ELSE RetNone

\* a get_market_price whose exception is not caught
get_market_price_uncaught(res) ==
    IF res.kind = "raise" THEN Exc ELSE Ret(res.price)

get_market_price(res) ==
    IF res.kind = "raise" THEN RetNone ELSE Ret(res.price)

\* Decimal num/den quantized down to `decimals` places, in units of
\* 10^-decimals
safe_decimal(num, den, quantize_decimals) ==
    (num * Pow10(quantize_decimals)) \div den

\* balance and price in whole USDT, percent in percent points
calculate_order_qty(balance, percent, price) ==
    IF price <= 0 \/ balance <= 0 \/ percent <= 0 THEN 0
    ELSE LET qty == safe_decimal(balance * percent, 100 * price, QTY_DECIMALS)
         IN IF qty < MIN_QTY THEN MIN_QTY ELSE qty

\* place_market_order: no exchange call for qty <= 0; an exception of the
\* call is caught and None returned
NoResp == [kind |-> "none", top |-> Field("absent", 0), item |-> Field("absent", 0)]

place_market_order(qty, res) ==
    IF qty <= 0 THEN [RetNone EXCEPT !.val = NoResp]
    ELSE IF res.kind = "raise" THEN [RetNone EXCEPT !.val = NoResp]
    ELSE Ret(res)

\* a handler that goes on after a failed entry
not_market_resp_ignored(r) == FALSE

\* `if not market_resp` (None and the empty dict are falsy)
not_market_resp(r) == r.none \/ r.val.kind = "empty"

\* the filled quantity read from the entry's response (main.py:347-367):
\* Decimal() of a bad string raises and the except keeps what is set so far
parse_filled_qty(qty, resp) ==
    IF resp.kind # "dict" THEN qty
    ELSE IF resp.top.k = "bad" THEN qty
    ELSE LET first == IF resp.top.k = "num" THEN resp.top.v ELSE qty
         IN IF resp.item.k = "num" THEN resp.item.v ELSE first

\* a take-profit on the side of the entry
tp_side_same(side) == side

\* tp_side of place_reduce_only_tp
tp_side(side) == IF side = "Sell" THEN "Buy" ELSE "Sell"

place_reduce_only_tp(out) == IF out = "raise" THEN RetNone ELSE Ret(0)

\* Decimal(str(price)).quantize(10^-8, ROUND_DOWN): raises InvalidOperation
\* on infinity (ok = FALSE)
quantize_price(n) ==
    [ok |-> ~n.inf, price |-> Num(n.w, (n.f \div 10) * 10)]

\* a handler that places the first price instead of the last
tp_targets_first(tps) == IF tps # <<>> THEN <<tps[1]>> ELSE <<>>

\* a handler that places an order at every price
tp_targets_all(tps) == tps

\* the take-profit prices the handler places an order for: the last one
tp_targets(tps) == IF tps # <<>> THEN <<tps[Len(tps)]>> ELSE <<>>

\* ------------------------------------------------------------ handler state
\* One entry of the log of calls made on the exchange client.
\* ret: "raise" when the call raised, else the kind of payload it returned;
\* val: what the helper handed to the handler (queries), or the leverage asked.
Call(op, orderType, side, qty, price, reduceOnly, ret, val) ==
    [op |-> op, orderType |-> orderType, side |-> side, qty |-> qty,
     price |-> price, reduceOnly |-> reduceOnly, ret |-> ret, val |-> val]

Query(op, ret, val) == Call(op, "", "", 0, NoNum, FALSE, ret, val)

IdleTask ==
    [pc |-> "idle", msg |-> <<>>, parsed |-> NoSignal, balance |-> 0,
     price |-> 0, qty |-> 0, filled_qty |-> 0, targets |-> <<>>,
     fault |-> FALSE, log |-> <<>>]

Slots == 1..MaxTasks

InFlight(t) == tasks[t].pc \notin {"idle", "done"}

\* a handler that awaits its price query
AwaitPoints_price == {"price"}

\* The positions at which handler awaits, handing the event loop to another
\* task: its body holds no await, every exchange call blocks the loop.
AwaitPoints == {}

\* An exception leaves the handler: the task ends with it.
Faulted(task) == [task EXCEPT !.pc = "done", !.fault = TRUE]

\* a handler that repeats a query, a set-up call or the entry when it raised
Continue_retry(t, task) ==
    LET again == /\ Len(task.log) > Len(tasks[t].log)
                 /\ task.log[Len(task.log)].ret = "raise"
                 /\ tasks[t].pc # "tp"
        next == IF again THEN [task EXCEPT !.pc = tasks[t].pc] ELSE task
    IN /\ tasks' = [tasks EXCEPT ![t] = next]
       /\ loopTask' = IF next.pc = "done" THEN 0 ELSE t
       /\ UNCHANGED <<TRADE_PERCENT, inbox>>

\* The task goes on from `task`; the loop is released at the end of the
\* handler and at an await.
Continue(t, task) ==
    /\ tasks' = [tasks EXCEPT ![t] = task]
    /\ loopTask' = IF task.pc = "done" \/ task.pc \in AwaitPoints THEN 0 ELSE t
    /\ UNCHANGED <<TRADE_PERCENT, inbox>>

At(t, pc) == tasks[t].pc = pc /\ loopTask \in {0, t}

\* ------------------------------------------------------------------ actions
Init ==
    /\ TRADE_PERCENT \in {0, 10}
    /\ inbox = <<>>
    /\ tasks = [t \in Slots |-> IdleTask]
    /\ loopTask = 0

\* The chat transport delivers a message.
Arrive(text) ==
    /\ Len(inbox) < MaxInbox
    /\ inbox' = Append(inbox, text)
    /\ UNCHANGED <<TRADE_PERCENT, tasks, loopTask>>

\* The event loop, free, starts handler on the oldest message: it runs up to
\* the balance query (parse, and return when the text is not a signal).
handler_start(t) ==
    /\ loopTask = 0
    /\ inbox # <<>>
    /\ ~InFlight(t)
    /\ \A u \in Slots : u < t => InFlight(u)
    /\ LET parsed == parse_signal_message(Head(inbox))
           task == [IdleTask EXCEPT !.msg = Head(inbox), !.parsed = parsed,
                                    !.pc = IF parsed.ok THEN "balance" ELSE "done"]
       IN /\ tasks' = [tasks EXCEPT ![t] = task]
          /\ loopTask' = IF task.pc = "done" \/ task.pc \in AwaitPoints THEN 0 ELSE t
    /\ inbox' = Tail(inbox)
    /\ UNCHANGED TRADE_PERCENT

handler_balance(t) ==
    /\ At(t, "balance")
    /\ \E res \in BalanceResponses :
         LET r == get_balance(res)
             task == [tasks[t] EXCEPT
                        !.log = Append(@, Query("get_wallet_balance", res.kind, r.val))]
         IN Continue(t,
              IF r.exc THEN Faulted(task)
              ELSE IF r.val <= 0 THEN [task EXCEPT !.pc = "done"]
              ELSE [task EXCEPT !.pc = "price", !.balance = r.val])

handler_price(t) ==
    /\ At(t, "price")
    /\ \E res \in TickerResponses :
         LET r == get_market_price(res)
             task == [tasks[t] EXCEPT
                        !.log = Append(@, Query("get_tickers", res.kind, r.val))]
         IN Continue(t,
              IF r.exc THEN Faulted(task)
              ELSE IF r.none \/ r.val <= 0 THEN [task EXCEPT !.pc = "done"]
              ELSE [task EXCEPT !.pc = "margin", !.price = r.val])

handler_margin(t) ==
    /\ At(t, "margin")
    /\ \E out \in CallOutcomes :
         LET r == set_cross_margin(out)
             task == [tasks[t] EXCEPT
                        !.log = Append(@, Query("switch_margin_mode", out, 0))]
         IN Continue(t,
              IF r.exc THEN Faulted(task) ELSE [task EXCEPT !.pc = "leverage"])

\* the value of a text's x<digits> token (0: the text has none)
XLeverage(msg) == IF \E i \in DOMAIN msg : msg[i] = "x10" THEN 10 ELSE 0

\* a handler that asks for the leverage written in the text
leverage_arg_from_text(msg) ==
    IF XLeverage(msg) # 0 THEN XLeverage(msg) ELSE DEFAULT_LEVERAGE

\* the leverage the handler asks for: set_leverage(symbol, DEFAULT_LEVERAGE)
leverage_arg(msg) == DEFAULT_LEVERAGE

\* set_leverage, then the sizing and its check (main.py:325-337)
handler_leverage(t) ==
    /\ At(t, "leverage")
    /\ \E out \in CallOutcomes :
         LET r == set_leverage(out)
             task == [tasks[t] EXCEPT
                        !.log = Append(@, Query("set_leverage", out, leverage_arg(tasks[t].msg)))]
             qty == calculate_order_qty(task.balance, TRADE_PERCENT, task.price)
         IN Continue(t,
              IF r.exc THEN Faulted(task)
              ELSE IF qty <= 0 THEN [task EXCEPT !.qty = qty, !.pc = "done"]
              ELSE [task EXCEPT !.qty = qty, !.pc = "entry"])

\* the market entry, the filled quantity and the choice of the take-profit
\* (main.py:339-372)
handler_entry(t) ==
    /\ At(t, "entry")
    /\ \E res \in MarketResponses :
         LET cur == tasks[t]
             r == place_market_order(cur.qty, res)
             task == IF cur.qty <= 0 THEN cur
                     ELSE [cur EXCEPT !.log = Append(@,
                             Call("place_order", "Market", cur.parsed.side, cur.qty,
                                  NoNum, FALSE, res.kind, 0))]
         IN Continue(t,
              IF r.exc THEN Faulted(task)
              ELSE IF not_market_resp(r) THEN [task EXCEPT !.pc = "done"]
              ELSE LET targets == tp_targets(task.parsed.tps)
                   IN [task EXCEPT !.filled_qty = parse_filled_qty(task.qty, r.val),
                                   !.targets = targets,
                                   !.pc = IF targets = <<>> THEN "done" ELSE "tp"])

\* the take-profit order (main.py:373-381): a price that cannot be
\* quantized raises before the call, and the except ends the handler
handler_tp(t) ==
    /\ At(t, "tp")
    /\ \E out \in CallOutcomes :
         LET cur == tasks[t]
             q == quantize_price(Head(cur.targets))
             r == place_reduce_only_tp(out)
             rest == Tail(cur.targets)
             task == [cur EXCEPT
                        !.targets = rest,
                        !.pc = IF rest = <<>> THEN "done" ELSE "tp",
                        !.log = IF q.ok
                                THEN Append(@, Call("place_order", "Limit",
                                       tp_side(cur.parsed.side), cur.filled_qty,
                                       q.price, TRUE, out, 0))
                                ELSE @]
         IN Continue(t, IF q.ok /\ r.exc THEN Faulted(task) ELSE task)

Next ==
    \/ \E text \in Texts : Arrive(text)
    \/ \E t \in Slots : handler_start(t)
    \/ \E t \in Slots : handler_balance(t)
    \/ \E t \in Slots : handler_price(t)
    \/ \E t \in Slots : handler_margin(t)
    \/ \E t \in Slots : handler_leverage(t)
    \/ \E t \in Slots : handler_entry(t)
    \/ \E t \in Slots : handler_tp(t)

Spec == Init /\ [][Next]_vars

\* ------------------------------------------------- the parser on its own
\* The tokens of the lexicon, and every text of up to MaxTextLen tokens,
\* with the texts of Spec and Scenario A of the specification, without and
\* with the Take-Profit marker.
TokenSet ==
    { "hello", "LONG", "SHORT", "BTC/USDT", "Entry - 50000", "x10",
      "Take-Profit:", "51000", "51000 (50%)", "52000 (50%)", "0.123456789",
      "0.005", "9{400}", "Price - 105.69 | Profit - 80%" }

ScenarioA ==
    <<"LONG", "BTC/USDT", "Entry - 50000", "x10", "51000 (50%)", "52000 (50%)">>

ScenarioAMarked ==
    <<"LONG", "BTC/USDT", "Entry - 50000", "x10", "Take-Profit:",
      "51000 (50%)", "52000 (50%)">>

ParseTexts ==
    UNION { [1..k -> TokenSet] : k \in 1..MaxTextLen }
        \cup Texts \cup {ScenarioA, ScenarioAMarked}

\* One message is delivered and the handler runs on it up to its first
\* exchange call.
ParseInit ==
    /\ TRADE_PERCENT = 10
    /\ \E text \in ParseTexts : inbox = <<text>>
    /\ tasks = [t \in Slots |-> IdleTask]
    /\ loopTask = 0

ParseNext == \E t \in Slots : handler_start(t)

ParseSpec == ParseInit /\ [][ParseNext]_vars

TypeOK ==
    /\ TRADE_PERCENT \in {0, 10}
    /\ Len(inbox) <= MaxInbox
    /\ loopTask \in 0..MaxTasks

\* ------------------------------------------------------- reading the log
Log(t) == tasks[t].log
Idx(t) == 1..Len(tasks[t].log)
IsEntryOrder(c) == c.op = "place_order" /\ c.orderType = "Market"
IsTpOrder(c) == c.op = "place_order" /\ c.orderType = "Limit"
IsStopOrder(c) == c.op = "place_order" /\ c.orderType \notin {"Market", "Limit"}
EntrySucceeded(t) == \E i \in Idx(t) : IsEntryOrder(Log(t)[i]) /\ Log(t)[i].ret = "dict"
Done(t) == tasks[t].pc = "done"

\* ------------------------------------------------------------------ claims

\* C1: when the market entry order fails (place_market_order returns no
\* response: the call raised, or returned a falsy payload), no other order,
\* take-profit or stop-loss, is placed for that message.
C1_EntryFailureAborts ==
    \A t \in Slots : \A i \in Idx(t) :
        (IsEntryOrder(Log(t)[i]) /\ Log(t)[i].ret # "dict")
            => \A j \in Idx(t) : j # i => Log(t)[j].op # "place_order"

\* a signal with take-profit prices whose entry order raised, handled to the end
C1_Witness ==
    \E t \in Slots :
        /\ Done(t)
        /\ tasks[t].parsed.tps # <<>>
        /\ \E i \in Idx(t) : IsEntryOrder(Log(t)[i]) /\ Log(t)[i].ret = "raise"

\* C2: for a signal with a positive balance, a valid price and a positive
\* sized quantity, the market entry order is attempted whether the margin
\* mode call and the leverage call succeed or fail.
C2_SetupBestEffort ==
    \A t \in Slots :
        ( /\ tasks[t].pc \in {"tp", "done"}
          /\ tasks[t].parsed.ok
          /\ tasks[t].balance > 0
          /\ tasks[t].price > 0
          /\ calculate_order_qty(tasks[t].balance, TRADE_PERCENT, tasks[t].price) > 0 )
        => \E i \in Idx(t) : IsEntryOrder(Log(t)[i])

\* both set-up calls raised and the entry order was still sent
C2_Witness ==
    \E t \in Slots :
        /\ \E i \in Idx(t) : Log(t)[i].op = "switch_margin_mode" /\ Log(t)[i].ret = "raise"
        /\ \E i \in Idx(t) : Log(t)[i].op = "set_leverage" /\ Log(t)[i].ret = "raise"
        /\ \E i \in Idx(t) : IsEntryOrder(Log(t)[i])

\* C3: signals are handled one at a time, in arrival order: no handler runs
\* while another one's cycle is in flight, and a handler starts on the
\* oldest message waiting.
C3_OneAtATime ==
    [][ /\ \A t, u \in Slots : (InFlight(t) /\ InFlight(u))' => t = u
        /\ \A t \in Slots :
             (~InFlight(t) /\ tasks'[t] # tasks[t])
                => /\ \A u \in Slots : u # t => ~InFlight(u)
                   /\ inbox # <<>>
                   /\ tasks'[t].msg = Head(inbox)
                   /\ inbox' = Tail(inbox) ]_vars

\* a cycle is about to place its entry while later messages wait
C3_Witness ==
    \E t \in Slots :
        /\ tasks[t].pc = "entry"
        /\ Len(inbox) = MaxInbox
        /\ \A u \in Slots : u # t => ~InFlight(u)

\* C4: for balance B > 0, risk fraction r in (0, 1] and price P > 0 the
\* sized quantity q satisfies q * P <= B * r.
C4_NeverOvershoots ==
    \A t \in Slots :
        LET B == tasks[t].balance
            P == tasks[t].price
            q == calculate_order_qty(B, TRADE_PERCENT, P)
        IN (B > 0 /\ P > 0 /\ TRADE_PERCENT \in 1..100)
              => q * P * 100 <= B * TRADE_PERCENT * Pow10(QTY_DECIMALS)

\* C5: when balance * riskFraction / price rounded down to 6 decimals is
\* <= 0, sizing is rejected: no market order and no take-profit order is
\* placed for that message.
C5_TooSmallRejected ==
    \A t \in Slots :
        LET B == tasks[t].balance
            P == tasks[t].price
        IN ( /\ B > 0 /\ P > 0
             /\ safe_decimal(B * TRADE_PERCENT, 100 * P, QTY_DECIMALS) <= 0 )
              => \A i \in Idx(t) : Log(t)[i].op # "place_order"

\* the take-profit orders of a task's log whose price is p
TpOrdersAt(t, p) == { i \in Idx(t) : IsTpOrder(Log(t)[i]) /\ Log(t)[i].price = p }
TpOrders(t) == { i \in Idx(t) : IsTpOrder(Log(t)[i]) }

RECURSIVE TpQtySum(_)
TpQtySum(log) ==
    IF log = <<>> THEN 0
    ELSE (IF IsTpOrder(Head(log)) THEN Head(log).qty ELSE 0) + TpQtySum(Tail(log))

\* C8: the quantities of the take-profit orders placed for a message sum to
\* at most the sized quantity sent in its market entry order, whatever the
\* entry order's response reports as filled.
C8_TpWithinSizedQty ==
    \A t \in Slots : \A i \in Idx(t) :
        IsEntryOrder(Log(t)[i]) => TpQtySum(Log(t)) <= Log(t)[i].qty

\* C9: every take-profit order is a reduce-only limit order on the side
\* opposite to the entry of the same message, and every market entry order
\* is sent with reduceOnly false, on the side of the signal.
C9_TpReduceOnlyOpposite ==
    \A t \in Slots : \A i \in Idx(t) :
        /\ IsEntryOrder(Log(t)[i])
             => /\ ~Log(t)[i].reduceOnly
                /\ Log(t)[i].side = tasks[t].parsed.side
        /\ IsTpOrder(Log(t)[i])
             => /\ Log(t)[i].reduceOnly
                /\ \A j \in Idx(t) : IsEntryOrder(Log(t)[j])
                      => \/ Log(t)[j].side = "Buy" /\ Log(t)[i].side = "Sell"
                         \/ Log(t)[j].side = "Sell" /\ Log(t)[i].side = "Buy"

\* a Sell entry followed by its Buy take-profit
C9_Witness ==
    \E t \in Slots : \E i, j \in Idx(t) :
        /\ IsEntryOrder(Log(t)[i]) /\ Log(t)[i].side = "Sell"
        /\ IsTpOrder(Log(t)[j]) /\ Log(t)[j].side = "Buy"

CallsOf(t, op) ==
    { i \in Idx(t) : Log(t)[i].op = op /\ (op = "place_order" => IsEntryOrder(Log(t)[i])) }

ExchangeOps ==
    {"get_wallet_balance", "get_tickers", "switch_margin_mode", "set_leverage",
     "place_order"}

\* C11: no retries: within the handling of one message the balance query,
\* the price query, the margin-mode call, the leverage call and the market
\* entry order are each invoked at most once, also when they fail.
C11_NoRetries ==
    \A t \in Slots : \A op \in ExchangeOps : Cardinality(CallsOf(t, op)) <= 1

\* a cycle whose margin-mode call, leverage call and entry order all raised
\* has ended with one call of each
C11_Witness ==
    \E t \in Slots :
        /\ Done(t)
        /\ \A op \in {"switch_margin_mode", "set_leverage", "place_order"} :
              /\ Cardinality(CallsOf(t, op)) = 1
              /\ \A i \in CallsOf(t, op) : Log(t)[i].ret = "raise"

\* --------------------------------------------- what a text holds, read
\* from the lexicon alone
Started(t) == tasks[t].pc # "idle"
HasSideWord(msg) == \E i \in DOMAIN msg : Lexicon(msg[i]).side # ""
HasSymbolToken(msg) == \E i \in DOMAIN msg : Lexicon(msg[i]).sym # ""
HasEntryToken(msg) == \E i \in DOMAIN msg : Lexicon(msg[i]).entry # <<>>
HasDigestShape(msg) == \E i \in DOMAIN msg : Lexicon(msg[i]).digest

\* C12: a message with a side keyword but no symbol token parses to None,
\* and the handler then makes no exchange call at all.
C12_SymbolAbsenceFatal ==
    \A t \in Slots :
        (Started(t) /\ HasSideWord(tasks[t].msg) /\ ~HasSymbolToken(tasks[t].msg))
            => /\ ~tasks[t].parsed.ok
               /\ Done(t)
               /\ Log(t) = <<>>

\* a text with a side keyword and an entry price, no symbol and no digest,
\* was handled
C12_Witness ==
    \E t \in Slots :
        /\ Done(t)
        /\ HasSideWord(tasks[t].msg) /\ HasEntryToken(tasks[t].msg)
        /\ ~HasSymbolToken(tasks[t].msg) /\ ~HasDigestShape(tasks[t].msg)

C15_PrefilterGates ==
    \A t \in Slots :
        (Started(t) /\ HasDigestShape(tasks[t].msg))
            => /\ ~tasks[t].parsed.ok
               /\ Done(t)
               /\ Log(t) = <<>>

\* a digest that also holds a side keyword and a symbol was handled
C15_Witness ==
    \E t \in Slots :
        /\ Done(t)
        /\ HasDigestShape(tasks[t].msg)
        /\ HasSideWord(tasks[t].msg) /\ HasSymbolToken(tasks[t].msg)

C17_EntryNotATakeProfit ==
    \A t \in Slots :
        (tasks[t].parsed.ok /\ tasks[t].parsed.hasEntry)
            => \A k \in DOMAIN tasks[t].parsed.tps :
                  tasks[t].parsed.tps[k] # tasks[t].parsed.entry

\* C18: no take-profit order with a quantity <= 0 is submitted, also when
\* the entry's response reports a filled quantity of 0.
C18_NoEmptyTakeProfit ==
    \A t \in Slots : \A i \in Idx(t) :
        IsTpOrder(Log(t)[i]) => Log(t)[i].qty > 0

\* sizing is rejected: the quantity computed for the cycle is <= 0
SizingRejected(t) ==
    /\ tasks[t].balance > 0
    /\ tasks[t].price > 0
    /\ calculate_order_qty(tasks[t].balance, TRADE_PERCENT, tasks[t].price) <= 0

Mutations == {"switch_margin_mode", "set_leverage", "place_order"}

\* C19: a cycle whose sizing is rejected ends with no exchange mutation:
\* neither margin mode nor leverage was set and no order placed.
C19_SizingBeforeSetup ==
    \A t \in Slots :
        (Done(t) /\ SizingRejected(t))
            => \A i \in Idx(t) : Log(t)[i].op \notin Mutations

\* C20: when the balance query fails or gives a balance <= 0, or the price
\* query fails or gives a price <= 0, the cycle ends there, having made
\* read-only queries alone; a balance query that failed is handled as a
\* balance of zero.
C20_QueryFailureReadOnly ==
    \A t \in Slots : \A i \in Idx(t) :
        /\ (Log(t)[i].op = "get_wallet_balance"
              /\ (Log(t)[i].ret \in {"raise", "nolist"} \/ Log(t)[i].val <= 0))
             => /\ Log(t)[i].val = 0
                /\ Len(Log(t)) = i
                /\ Done(t)
                /\ tasks[t].balance = 0
        /\ (Log(t)[i].op = "get_tickers"
              /\ (Log(t)[i].ret = "raise" \/ Log(t)[i].val <= 0))
             => /\ Len(Log(t)) = i
                /\ Done(t)
                /\ \A j \in Idx(t) : Log(t)[j].op \notin Mutations

\* a cycle ended on a price query that raised, after a positive balance
C20_Witness ==
    \E t \in Slots :
        /\ Done(t)
        /\ Len(Log(t)) = 2
        /\ Log(t)[1].op = "get_wallet_balance" /\ Log(t)[1].val > 0
        /\ Log(t)[2].op = "get_tickers" /\ Log(t)[2].ret = "raise"

====
